---- MODULE Spec2Model ----
(***************************************************************************)
(* The match engine of shifumi-bot: the games table of lib/database.py,    *)
(* the queries and updates the handlers run against it, and the two        *)
(* handlers that change it (api/shifumi.py, the slash command, and         *)
(* api/response.py, the button press).  Each handler instance runs in its  *)
(* own process against the shared store, so a handler that reads and then  *)
(* writes is two steps, and other handlers may run in between.             *)
(***************************************************************************)
EXTENDS Integers, Sequences, FiniteSets, TLC

\* Bound on the number of rows of the games table.
MaxGames == 2

\* Bound on the number of response handlers between their read and their write.
MaxInFlight == 2

\* The users, channels and command tokens the requests are drawn from.
Players == {"P1", "P2", "P3"}
Channels == {"C", "D"}
Tokens == {"PIERRE", "LIZARD"}
ActionIds == {"play_rock", "play_paper", "play_scissors"}

\* SQL NULL / Python None in a column or a field.
NULL == "NULL"
\* Gesture.from_input raising ValueError.
ValueError == "ValueError"

\* Slack's user_name / username of a user id.
UserName(p) == "name_" \o p

Gesture == {"ROCK", "PAPER", "SCISSORS"}

\* from_input raising ValueError for no text: every text is ROCK unless it
\* is another gesture's.
from_input_or_rock(text) ==
    CASE text \in {"PAPER", "FEUILLE", "FEUILLES", ":LEAVES:", ":FEUILLE:"} -> "PAPER"
      [] text \in {"SCISSORS", "CISEAUX", ":SCISSORS:", ":CISEAUX:"} -> "SCISSORS"
      [] OTHER -> "ROCK"

\* Gesture.from_input on an upper-cased, stripped token.
from_input(text) ==
    CASE text \in {"ROCK", ":ROCK:", "PIERRE", "CAILLOU", "CAILLOUX", ":CAILLOU:"} -> "ROCK"
      [] text \in {"PAPER", "FEUILLE", "FEUILLES", ":LEAVES:", ":FEUILLE:"} -> "PAPER"
      [] text \in {"SCISSORS", "CISEAUX", ":SCISSORS:", ":CISEAUX:"} -> "SCISSORS"
      [] OTHER -> ValueError

VARIABLES
    games,      \* the games table: a sequence of rows, row i has id i (SERIAL)
    target,     \* history: target[i] is the opponent_id game i was created with
    inflight,   \* response handlers that have read their game and not yet written
    resp        \* the request answered last and the response it was given

vars == <<games, target, inflight, resp>>

Rows == {games[i] : i \in 1..Len(games)}

\* created_at of a new row: DEFAULT CURRENT_TIMESTAMP, a clock reading later
\* than that of every earlier row.
Now(db) == Len(db) + 1

\* Latest with the order reversed (ORDER BY created_at ASC).
Earliest(rows) == {r \in rows : \A q \in rows : q.created_at >= r.created_at}

\* The rows ORDER BY created_at DESC LIMIT 1 may return: the latest.
Latest(rows) == {r \in rows : \A q \in rows : q.created_at <= r.created_at}

\* GameTuple with the player columns in the other order:
\* SELECT id, player2_id, player1_move, player1_id, player2_move
GameTuple_swapped(r) ==
    [id |-> r.id, player1_id |-> r.player2_id, player1_move |-> r.player1_move,
     player2_id |-> r.player1_id, player2_move |-> r.player2_move]

\* SELECT id, player1_id, player1_move, player2_id, player2_move
GameTuple(r) ==
    [id |-> r.id, player1_id |-> r.player1_id, player1_move |-> r.player1_move,
     player2_id |-> r.player2_id, player2_move |-> r.player2_move]

\* SELECT id, player1_id, player1_move
ChallengeTuple(r) ==
    [id |-> r.id, player1_id |-> r.player1_id, player1_move |-> r.player1_move]

\* get_pending_game without its player2_id IS NULL condition.
get_pending_game_any(channel_id) ==
    {GameTuple(r) : r \in Latest({r \in Rows : /\ r.channel_id = channel_id
                                               /\ r.status = "pending"})}

\* get_pending_game: the tuples fetchone() may return; {} stands for None.
get_pending_game(channel_id) ==
    {GameTuple(r) : r \in Latest({r \in Rows : /\ r.channel_id = channel_id
                                               /\ r.player2_id = NULL
                                               /\ r.status = "pending"})}

\* create_game: table db after the INSERT; the id returned is its length.
create_game(db, channel_id, player_id, player_name, move, opponent_id, opponent_name) ==
    Append(db, [id |-> Len(db) + 1,
                channel_id |-> channel_id,
                player1_id |-> player_id,
                player1_name |-> player_name,
                player1_move |-> move,
                player2_id |-> opponent_id,
                player2_name |-> opponent_name,
                player2_move |-> NULL,
                status |-> "pending",
                created_at |-> Now(db)])

\* update_game without status = 'complete' in its SET list.
update_game_keeps_status(db, game_id, player2_id, player2_name, move) ==
    [i \in 1..Len(db) |->
        IF db[i].id = game_id
        THEN [db[i] EXCEPT !.player2_id = player2_id,
                           !.player2_name = player2_name,
                           !.player2_move = move]
        ELSE db[i]]

\* update_game without player2_name in its SET list.
update_game_keeps_name(db, game_id, player2_id, player2_name, move) ==
    [i \in 1..Len(db) |->
        IF db[i].id = game_id
        THEN [db[i] EXCEPT !.player2_id = player2_id,
                           !.player2_move = move,
                           !.status = "complete"]
        ELSE db[i]]

\* update_game with player1_move in its SET list.
update_game_sets_player1(db, game_id, player2_id, player2_name, move) ==
    [i \in 1..Len(db) |->
        IF db[i].id = game_id
        THEN [db[i] EXCEPT !.player1_move = move,
                           !.player2_id = player2_id,
                           !.player2_name = player2_name,
                           !.player2_move = move,
                           !.status = "complete"]
        ELSE db[i]]

\* update_game: table db after UPDATE ... WHERE id = game_id.
update_game(db, game_id, player2_id, player2_name, move) ==
    [i \in 1..Len(db) |->
        IF db[i].id = game_id
        THEN [db[i] EXCEPT !.player2_id = player2_id,
                           !.player2_name = player2_name,
                           !.player2_move = move,
                           !.status = "complete"]
        ELSE db[i]]

\* get_pending_challenge: the tuples fetchone() may return; {} stands for None.
get_pending_challenge(challenger_id, opponent_id) ==
    {ChallengeTuple(r) : r \in Latest({r \in Rows :
        /\ \/ (r.player1_id = challenger_id /\ r.player2_id = opponent_id)
           \/ (r.player1_id = opponent_id /\ r.player2_id = challenger_id)
        /\ r.player2_move = NULL
        /\ r.status = "pending"})}

\* get_game_by_id: the tuples fetchone() may return; {} stands for None.
get_game_by_id(game_id) ==
    {GameTuple(r) : r \in {r \in Rows : r.id = game_id /\ r.status = "pending"}}

\* The winner named by the result block of a challenge response.
challenge_result(move1, move2, challenger_id, user_id) ==
    IF move1 = move2 THEN "Egalite"
    ELSE IF \/ (move1 = "ROCK" /\ move2 = "SCISSORS")
            \/ (move1 = "PAPER" /\ move2 = "ROCK")
            \/ (move1 = "SCISSORS" /\ move2 = "PAPER")
         THEN challenger_id
         ELSE user_id

\* game_result with the last pair of its win test reversed.
game_result_swapped(move1, move2, player1_id, user_id) ==
    IF move1 = move2 THEN "Egalite"
    ELSE IF \/ (move1 = "ROCK" /\ move2 = "SCISSORS")
            \/ (move1 = "PAPER" /\ move2 = "ROCK")
            \/ (move1 = "PAPER" /\ move2 = "SCISSORS")
         THEN player1_id
         ELSE user_id

\* The winner named by the result block of a regular game response.
game_result(move1, move2, player1_id, user_id) ==
    IF move1 = move2 THEN "Egalite"
    ELSE IF \/ (move1 = "ROCK" /\ move2 = "SCISSORS")
            \/ (move1 = "PAPER" /\ move2 = "ROCK")
            \/ (move1 = "SCISSORS" /\ move2 = "PAPER")
         THEN player1_id
         ELSE user_id

\* The analytics queries' "first player wins" rows of game_results
\* (get_user_stats, get_leaderboard).
first_player_wins(player1_move, player2_move) ==
    \/ (player1_move = "ROCK" /\ player2_move = "SCISSORS")
    \/ (player1_move = "PAPER" /\ player2_move = "ROCK")
    \/ (player1_move = "SCISSORS" /\ player2_move = "PAPER")

\* The analytics queries' "second player wins" rows of game_results.
second_player_wins(player1_move, player2_move) ==
    \/ (player2_move = "ROCK" /\ player1_move = "SCISSORS")
    \/ (player2_move = "PAPER" /\ player1_move = "ROCK")
    \/ (player2_move = "SCISSORS" /\ player1_move = "PAPER")

\* The analytics queries' draw rows of game_results.
draw_game(player1_move, player2_move) == player1_move = player2_move

\* The CASE that classifies a match for its first player's move
\* (get_move_stats, get_player_stats, get_head_to_head_stats,
\* get_move_stats_breakdown, get_head_to_head_stats_breakdown).
first_move_result(player1_move, player2_move) ==
    IF \/ (player1_move = "ROCK" /\ player2_move = "SCISSORS")
       \/ (player1_move = "PAPER" /\ player2_move = "ROCK")
       \/ (player1_move = "SCISSORS" /\ player2_move = "PAPER")
    THEN "WIN"
    ELSE IF \/ (player1_move = "ROCK" /\ player2_move = "PAPER")
            \/ (player1_move = "PAPER" /\ player2_move = "SCISSORS")
            \/ (player1_move = "SCISSORS" /\ player2_move = "ROCK")
    THEN "LOSS"
    ELSE "DRAW"

\* The CASE that classifies a match for its second player's move.
second_move_result(player1_move, player2_move) ==
    IF \/ (player2_move = "ROCK" /\ player1_move = "SCISSORS")
       \/ (player2_move = "PAPER" /\ player1_move = "ROCK")
       \/ (player2_move = "SCISSORS" /\ player1_move = "PAPER")
    THEN "WIN"
    ELSE IF \/ (player2_move = "ROCK" /\ player1_move = "PAPER")
            \/ (player2_move = "PAPER" /\ player1_move = "SCISSORS")
            \/ (player2_move = "SCISSORS" /\ player1_move = "ROCK")
    THEN "LOSS"
    ELSE "DRAW"

\* The move of a button, from its action_id.
action_move(action_id) ==
    CASE action_id = "play_rock" -> "ROCK"
      [] action_id = "play_paper" -> "PAPER"
      [] action_id = "play_scissors" -> "SCISSORS"

\* The value of a button.  The game and challenge messages carry the game id;
\* the challenge branch of the response handler expects "userid MOVE".
IdValue(game_id) == [fmt |-> "id", id |-> game_id, challenger |-> NULL]
ChallengeValue(challenger_id) == [fmt |-> "challenge", id |-> 0, challenger |-> challenger_id]

\* ' ' in action_value
HasSpace(action_value) == action_value.fmt = "challenge"

\* pending_challenge[0] == target_user: the id column (an int) against a user
\* id (a str), which Python evaluates to False.
IdEqualsUser(game_id, target_user) == FALSE

\* A response: its kind, the requesting user, the game whose message carried
\* the pressed button (0 for none), the game acted on and the winner announced.
Response(kind, user, button, game, result) ==
    [kind |-> kind, user |-> user, button |-> button, game |-> game, result |-> result]

Init ==
    /\ games = <<>>
    /\ target = <<>>
    /\ inflight = {}
    /\ resp = Response("none", NULL, 0, 0, NULL)

\* api/shifumi.py, a plain move: "/shifumi <gesture>".
Play(user_id, channel_id, text) ==
    LET move == from_input(text) IN
    /\ UNCHANGED inflight
    /\ IF move = ValueError
       THEN /\ resp' = Response("invalid_gesture", user_id, 0, 0, NULL)
            /\ UNCHANGED <<games, target>>
       ELSE /\ Len(games) < MaxGames
            /\ games' = create_game(games, channel_id, user_id, UserName(user_id),
                                    move, NULL, NULL)
            /\ target' = Append(target, NULL)
            /\ resp' = Response("waiting", user_id, 0, Len(games) + 1, NULL)

\* api/shifumi.py, a direct challenge: "/shifumi <@target> <gesture>".
Challenge(user_id, target_user, channel_id, text) ==
    LET move == from_input(text)
        pending_challenge == get_pending_challenge(target_user, user_id)
    IN
    /\ UNCHANGED inflight
    /\ IF move = ValueError
       THEN /\ resp' = Response("invalid_gesture", user_id, 0, 0, NULL)
            /\ UNCHANGED <<games, target>>
       ELSE IF target_user = user_id
       THEN /\ resp' = Response("self_challenge", user_id, 0, 0, NULL)
            /\ UNCHANGED <<games, target>>
       ELSE IF \E row \in pending_challenge : IdEqualsUser(row.id, target_user)
       THEN /\ resp' = Response("already_challenged", user_id, 0, 0, NULL)
            /\ UNCHANGED <<games, target>>
       ELSE /\ Len(games) < MaxGames
            /\ games' = create_game(games, channel_id, user_id, UserName(user_id),
                                    move, target_user, NULL)
            /\ target' = Append(target, target_user)
            /\ resp' = Response("challenge", user_id, 0, Len(games) + 1, NULL)

\* api/response.py up to its read of the store: look the game up, and answer
\* at once when there is nothing to complete.  The move of the button is
\* parsed before the read, but nothing reads it before update_game, so the
\* model draws it in PressWrite, where it is first used.
PressRead(user_id, action_value, channel_id) ==
    IF HasSpace(action_value)
    THEN LET pending_challenge == get_pending_challenge(action_value.challenger, user_id) IN
         IF pending_challenge = {}
         THEN /\ resp' = Response("challenge_not_found", user_id, 0, 0, NULL)
              /\ UNCHANGED <<games, target, inflight>>
         ELSE /\ Cardinality(inflight) < MaxInFlight
              /\ \E row \in pending_challenge :
                    inflight' = inflight \cup
                        {[branch |-> "challenge", user_id |-> user_id,
                          button |-> action_value.id, game_id |-> row.id,
                          player1_id |-> row.player1_id,
                          player1_move |-> row.player1_move]}
              /\ UNCHANGED <<games, target, resp>>
    ELSE LET pending_game == get_pending_game(channel_id) IN
         IF pending_game = {}
         THEN /\ resp' = Response("game_not_found", user_id, action_value.id, 0, NULL)
              /\ UNCHANGED <<games, target, inflight>>
         ELSE \E row \in pending_game :
                 IF row.player1_id = user_id
                 THEN /\ resp' = Response("self_play", user_id, action_value.id, row.id, NULL)
                      /\ UNCHANGED <<games, target, inflight>>
                 ELSE /\ Cardinality(inflight) < MaxInFlight
                      /\ inflight' = inflight \cup
                            {[branch |-> "game", user_id |-> user_id,
                              button |-> action_value.id, game_id |-> row.id,
                              player1_id |-> row.player1_id,
                              player1_move |-> row.player1_move]}
                      /\ UNCHANGED <<games, target, resp>>

\* api/response.py from update_game on: complete the game that was read and
\* announce its result.
PressWrite(h, action_id) ==
    LET move == action_move(action_id) IN
    /\ h \in inflight
    /\ inflight' = inflight \ {h}
    /\ UNCHANGED target
    /\ games' = update_game(games, h.game_id, h.user_id, UserName(h.user_id), move)
    /\ resp' = IF h.branch = "challenge"
               THEN Response("challenge_result", h.user_id, h.button, h.game_id,
                             challenge_result(h.player1_move, move, h.player1_id, h.user_id))
               ELSE Response("game_result", h.user_id, h.button, h.game_id,
                             game_result(h.player1_move, move, h.player1_id, h.user_id))

\* A button of the message of game g is pressed, in that game's channel.
PressGameButton ==
    \E user_id \in Players, g \in 1..Len(games) :
        PressRead(user_id, IdValue(g), games[g].channel_id)

\* A button whose value is "challenger MOVE" is pressed, on the message of a
\* challenge that challenger made; the channel of the payload is not read on
\* that branch.
PressChallengeButton ==
    \E user_id \in Players, g \in 1..Len(games) :
        /\ target[g] # NULL
        /\ PressRead(user_id, ChallengeValue(games[g].player1_id), NULL)

\* The code never inspects a user id or a channel id, it only compares them, so
\* the command that creates the first game is taken to come from P1 in C.
FirstGame(user_id, channel_id) ==
    games = <<>> /\ user_id = "P1" /\ channel_id = "C"

PlayCommand ==
    \E user_id \in Players, channel_id \in Channels, text \in Tokens :
        /\ from_input(text) = ValueError \/ games # <<>> \/ FirstGame(user_id, channel_id)
        /\ Play(user_id, channel_id, text)

ChallengeCommand ==
    \E user_id \in Players, target_user \in Players, channel_id \in Channels,
       text \in Tokens :
        /\ \/ from_input(text) = ValueError
           \/ target_user = user_id
           \/ games # <<>>
           \/ FirstGame(user_id, channel_id)
        /\ Challenge(user_id, target_user, channel_id, text)

Complete == \E h \in inflight, action_id \in ActionIds : PressWrite(h, action_id)

Next ==
    \/ PlayCommand
    \/ ChallengeCommand
    \/ PressGameButton
    \/ PressChallengeButton
    \/ Complete

Spec == Init /\ [][Next]_vars

(***************************************************************************)
(* The match histories the analytics read: matches between two players,    *)
(* each created with create_game and completed with update_game, with any  *)
(* pair of gestures.                                                       *)
(***************************************************************************)
\* Bound on the number of matches of a history.
MaxHistory == 2

RecordMatch(player1_id, move1, player2_id, move2) ==
    /\ Len(games) < MaxHistory
    /\ player1_id # player2_id
    /\ games' = update_game(
                    create_game(games, "C", player1_id, UserName(player1_id), move1,
                                NULL, NULL),
                    Len(games) + 1, player2_id, UserName(player2_id), move2)
    /\ target' = Append(target, NULL)
    /\ UNCHANGED <<inflight, resp>>

NextHistory ==
    \E player1_id \in Players, player2_id \in Players, move1 \in Gesture, move2 \in Gesture :
        RecordMatch(player1_id, move1, player2_id, move2)

SpecHistory == Init /\ [][NextHistory]_vars

(***************************************************************************)
(* The text of a slash command, as api/shifumi.py parses it.  A token of   *)
(* text.split() is a sequence of characters, so that the slicing and the   *)
(* splitting of a mention are computed as the code computes them.          *)
(***************************************************************************)
LowerCase == <<"a", "b", "c", "d", "e", "f", "g", "h", "i", "j", "k", "l", "m", "n", "o", "p", "q", "r", "s", "t", "u", "v", "w", "x", "y", "z">>
UpperCase == <<"A", "B", "C", "D", "E", "F", "G", "H", "I", "J", "K", "L", "M", "N", "O", "P", "Q", "R", "S", "T", "U", "V", "W", "X", "Y", "Z">>

\* str.upper(), character by character.
upper(chars) ==
    [i \in 1..Len(chars) |->
        IF \E k \in 1..Len(LowerCase) : LowerCase[k] = chars[i]
        THEN UpperCase[CHOOSE k \in 1..Len(LowerCase) : LowerCase[k] = chars[i]]
        ELSE chars[i]]

\* The Python str of a sequence of characters.
RECURSIVE Str(_)
Str(chars) == IF chars = <<>> THEN "" ELSE Head(chars) \o Str(Tail(chars))

\* str.startswith(prefix)
startswith(chars, prefix) ==
    /\ Len(chars) >= Len(prefix)
    /\ SubSeq(chars, 1, Len(prefix)) = prefix

\* chars[2:-1]
Slice2ToLast(chars) == SubSeq(chars, 3, Len(chars) - 1)

\* chars.split('|')[0]
SplitBarFirst(chars) ==
    IF \E i \in 1..Len(chars) : chars[i] = "|"
    THEN SubSeq(chars, 1, (CHOOSE i \in 1..Len(chars) :
                              /\ chars[i] = "|"
                              /\ \A j \in 1..(i - 1) : chars[j] # "|") - 1)
    ELSE chars

\* The tokens commands are made of: gestures, recognized or not, and mentions
\* of P2, escaped as Slack escapes them, or cut short, or typed by hand.
GestureTokens == {<<"p", "i", "e", "r", "r", "e">>, <<"L", "I", "Z", "A", "R", "D">>}
MentionTokens == {<<"<", "@", "P", "2", ">">>, <<"<", "@", "P", "2", "|", "b", "o", "b", ">">>, <<"<", "@", "P", "2">>, <<"@", "P", "2">>}

\* The texts of the commands, after text.split().
Texts ==
    {<<>>}
    \cup {<<g>> : g \in GestureTokens}
    \cup {<<m, g>> : m \in MentionTokens, g \in GestureTokens}
    \cup {<<g, m>> : m \in MentionTokens, g \in GestureTokens}

\* api/shifumi.py from the parsed text on: a direct challenge when the text
\* has two parts and the first starts with "<@", a plain move otherwise.  A
\* text with no part raises IndexError at text_parts[0], which nothing
\* catches: the request fails and the store is left alone.
Command(user_id, channel_id, text_parts) ==
    IF Len(text_parts) = 2 /\ startswith(text_parts[1], <<"<", "@">>)
    THEN Challenge(user_id, Str(SplitBarFirst(Slice2ToLast(text_parts[1]))),
                   channel_id, Str(upper(text_parts[2])))
    ELSE IF Len(text_parts) = 0
    THEN /\ resp' = Response("crash", user_id, 0, 0, NULL)
         /\ UNCHANGED <<games, target, inflight>>
    ELSE Play(user_id, channel_id, Str(upper(text_parts[1])))

SlashCommand ==
    \E user_id \in Players, channel_id \in Channels, text_parts \in Texts :
        Command(user_id, channel_id, text_parts)

SpecCommand == Init /\ [][SlashCommand]_vars

(***************************************************************************)
(* The analytics queries of lib/database.py, computed from the rows of     *)
(* games as the SQL computes them.  UNION ALL keeps duplicates, so a row   *)
(* of a common table expression carries the game and the branch of the     *)
(* union it comes from.  The histories below hold matches of the current   *)
(* year, the condition every query puts on created_at.                     *)
(***************************************************************************)
\* The rows without the condition on status.
RowsOfAnyStatus == Rows

\* WHERE status = 'complete'
CompleteRows == {r \in Rows : r.status = "complete"}

\* get_leaderboard, WITH game_results.
leaderboard_game_results ==
    {[game |-> r.id, branch |-> 1, winner_id |-> r.player1_id, loser_id |-> r.player2_id,
      winner_name |-> r.player1_name, loser_name |-> r.player2_name, result |-> "WIN"] :
        r \in {q \in CompleteRows : first_player_wins(q.player1_move, q.player2_move)}}
    \cup
    {[game |-> r.id, branch |-> 2, winner_id |-> r.player2_id, loser_id |-> r.player1_id,
      winner_name |-> r.player2_name, loser_name |-> r.player1_name, result |-> "WIN"] :
        r \in {q \in CompleteRows : second_player_wins(q.player1_move, q.player2_move)}}
    \cup
    {[game |-> r.id, branch |-> 3, winner_id |-> r.player1_id, loser_id |-> r.player2_id,
      winner_name |-> r.player1_name, loser_name |-> r.player2_name, result |-> "DRAW"] :
        r \in {q \in CompleteRows : draw_game(q.player1_move, q.player2_move)}}
    \cup
    {[game |-> r.id, branch |-> 4, winner_id |-> r.player2_id, loser_id |-> r.player1_id,
      winner_name |-> r.player2_name, loser_name |-> r.player1_name, result |-> "DRAW"] :
        r \in {q \in CompleteRows : draw_game(q.player1_move, q.player2_move)}}

\* get_leaderboard, the subquery all_results.
leaderboard_all_results ==
    {[game |-> x.game, branch |-> x.branch, side |-> "winner",
      player_id |-> x.winner_id, player_name |-> x.winner_name, result |-> x.result] :
        x \in leaderboard_game_results}
    \cup
    {[game |-> x.game, branch |-> x.branch, side |-> "loser",
      player_id |-> x.loser_id, player_name |-> x.loser_name, result |-> NULL] :
        x \in {y \in leaderboard_game_results : y.result = "WIN"}}

\* get_leaderboard, the subquery p: GROUP BY player_id, player_name.
leaderboard_p ==
    {[player_id |-> k[1], player_name |-> k[2],
      wins |-> Cardinality({x \in leaderboard_all_results :
                  x.player_id = k[1] /\ x.player_name = k[2] /\ x.result = "WIN"}),
      draws |-> Cardinality({x \in leaderboard_all_results :
                  x.player_id = k[1] /\ x.player_name = k[2] /\ x.result = "DRAW"}),
      losses |-> Cardinality({x \in leaderboard_all_results :
                  x.player_id = k[1] /\ x.player_name = k[2] /\ x.result = NULL})] :
        k \in {<<x.player_id, x.player_name>> : x \in leaderboard_all_results}}

\* ROUND(n / d * 100, 1) in tenths of a percent; numeric rounds half away
\* from zero.
RoundedPercent(n, d) == (2000 * n + d) \div (2 * d)

\* get_leaderboard, the win_rate column, in tenths of a percent:
\* COALESCE(ROUND(wins / (NULLIF(wins, 0) + NULLIF(losses, 0)) * 100, 1), 0),
\* where a NULLIF that yields NULL makes the whole quotient NULL.
leaderboard_win_rate(wins, losses) ==
    IF wins = 0 \/ losses = 0 THEN 0 ELSE RoundedPercent(wins, wins + losses)

\* The number of games a player must have to be ranked.
MinRankedGames == 5

\* get_leaderboard, WITH player_stats.
player_stats ==
    {[player_id |-> q.player_id, player_name |-> q.player_name,
      wins |-> q.wins, losses |-> q.losses, draws |-> q.draws,
      total_games |-> q.wins + q.losses,
      win_rate |-> leaderboard_win_rate(q.wins, q.losses)] :
        q \in {y \in leaderboard_p : y.wins + y.losses + y.draws >= MinRankedGames}}

\* ORDER BY win_rate DESC, wins DESC, total_games DESC puts a strictly
\* before b.
leaderboard_before(a, b) ==
    \/ a.win_rate > b.win_rate
    \/ a.win_rate = b.win_rate /\ a.wins > b.wins
    \/ a.win_rate = b.win_rate /\ a.wins = b.wins /\ a.total_games > b.total_games

\* The arrangements of the rows of a result in a list.
Arrangements(rows) ==
    {f \in [1..Cardinality(rows) -> rows] :
        \A i, j \in 1..Cardinality(rows) : i # j => f[i] # f[j]}

\* A row of the list get_leaderboard returns.
LeaderboardRow(q) ==
    [player_id |-> q.player_id, user_name |-> q.player_name, wins |-> q.wins,
     losses |-> q.losses, draws |-> q.draws, win_rate |-> q.win_rate]

\* get_leaderboard: the lists it may return, every arrangement that agrees
\* with the ORDER BY, the rows it ties in any order.
get_leaderboard ==
    {[i \in 1..Len(f) |-> LeaderboardRow(f[i])] :
        f \in {a \in Arrangements(player_stats) :
                  \A i, j \in 1..Len(a) : i < j => ~leaderboard_before(a[j], a[i])}}

\* The recorded names in the order of the database's collation.
NamesInOrder == <<"alias_P1", "name_P1", "name_P2", "name_P3">>
NameRank(name) == CHOOSE k \in 1..Len(NamesInOrder) : NamesInOrder[k] = name

\* MAX(player_name)
MaxName(names) == CHOOSE n \in names : \A m \in names : NameRank(m) <= NameRank(n)

\* get_unranked_players, WITH game_results.
unranked_game_results ==
    {[game |-> r.id, branch |-> 1, player_id |-> r.player1_id,
      player_name |-> r.player1_name] : r \in CompleteRows}
    \cup
    {[game |-> r.id, branch |-> 2, player_id |-> r.player2_id,
      player_name |-> r.player2_name] :
        r \in {q \in CompleteRows : q.player2_id # NULL}}

\* get_unranked_players, the groups of GROUP BY player_id HAVING COUNT(*) < 5.
unranked_rows ==
    {[player_id |-> id,
      player_name |-> MaxName({x.player_name : x \in
                        {y \in unranked_game_results : y.player_id = id}}),
      games_played |-> Cardinality({y \in unranked_game_results : y.player_id = id}),
      games_needed |-> MinRankedGames
                        - Cardinality({y \in unranked_game_results : y.player_id = id})] :
        id \in {z \in {x.player_id : x \in unranked_game_results} :
                  Cardinality({y \in unranked_game_results : y.player_id = z})
                      < MinRankedGames}}

\* ORDER BY COUNT(*) DESC, MAX(player_name) puts a strictly before b.
unranked_before(a, b) ==
    \/ a.games_played > b.games_played
    \/ /\ a.games_played = b.games_played
       /\ NameRank(a.player_name) < NameRank(b.player_name)

\* get_unranked_players: the lists it may return.
get_unranked_players ==
    {a \in Arrangements(unranked_rows) :
        \A i, j \in 1..Len(a) : i < j => ~unranked_before(a[j], a[i])}

\* get_user_stats, WITH game_results, for the user the query is given.
user_game_results(user_id) ==
    {[game |-> r.id, branch |-> 1, winner_id |-> r.player1_id, loser_id |-> r.player2_id,
      winner_name |-> r.player1_name, loser_name |-> r.player2_name,
      result |-> "WIN"] :
        r \in {q \in CompleteRows : first_player_wins(q.player1_move, q.player2_move)}}
    \cup
    {[game |-> r.id, branch |-> 2, winner_id |-> r.player2_id, loser_id |-> r.player1_id,
      winner_name |-> r.player2_name, loser_name |-> r.player1_name,
      result |-> "WIN"] :
        r \in {q \in CompleteRows : second_player_wins(q.player1_move, q.player2_move)}}
    \cup
    {[game |-> r.id, branch |-> 3, winner_id |-> r.player1_id, loser_id |-> r.player2_id,
      winner_name |-> r.player1_name, loser_name |-> r.player2_name,
      result |-> "DRAW"] :
        r \in {q \in CompleteRows : /\ q.player1_id = user_id
                                    /\ draw_game(q.player1_move, q.player2_move)}}
    \cup
    {[game |-> r.id, branch |-> 4, winner_id |-> r.player2_id, loser_id |-> r.player1_id,
      winner_name |-> r.player2_name, loser_name |-> r.player1_name,
      result |-> "DRAW"] :
        r \in {q \in CompleteRows : /\ q.player2_id = user_id
                                    /\ draw_game(q.player1_move, q.player2_move)}}

\* get_user_stats, WITH user_stats: the wins, losses and draws it returns.
user_stats(user_id) ==
    LET mine == {x \in user_game_results(user_id) :
                    x.winner_id = user_id \/ x.loser_id = user_id}
    IN  [wins |-> Cardinality({x \in mine : x.winner_id = user_id /\ x.result = "WIN"}),
         losses |-> Cardinality({x \in mine : x.loser_id = user_id /\ x.result = "WIN"}),
         draws |-> Cardinality({x \in mine : x.result = "DRAW"})]

(***************************************************************************)
(* The seasons the analytics read: histories of completed matches.  The    *)
(* queries count rows and never look at the order they were created in,    *)
(* so a season is built in the order of the list of its kinds of match.    *)
(***************************************************************************)
\* Bound on the number of matches of a season.
MaxSeason == 8

\* A kind of match: who played, under which recorded name, and the gestures.
Match(player1_id, player1_name, player1_move, player2_id, player2_name, player2_move) ==
    [player1_id |-> player1_id, player1_name |-> player1_name,
     player1_move |-> player1_move, player2_id |-> player2_id,
     player2_name |-> player2_name, player2_move |-> player2_move]

\* Matches between two players under their current names, won by the
\* first, won by the second, and drawn.
MatchesOf(player1_id, player2_id) ==
    <<Match(player1_id, UserName(player1_id), "ROCK",
            player2_id, UserName(player2_id), "SCISSORS"),
      Match(player1_id, UserName(player1_id), "ROCK",
            player2_id, UserName(player2_id), "PAPER"),
      Match(player1_id, UserName(player1_id), "ROCK",
            player2_id, UserName(player2_id), "ROCK")>>

\* Matches P1 played when Slack knew them under another user name.
RenamedMatches ==
    <<Match("P1", "alias_P1", "PAPER", "P2", UserName("P2"), "ROCK"),
      Match("P1", "alias_P1", "PAPER", "P2", UserName("P2"), "PAPER")>>

\* Matches a player completed against themselves, through the challenge
\* branch of the response handler.
SelfMatches ==
    <<Match("P3", UserName("P3"), "ROCK", "P3", UserName("P3"), "PAPER"),
      Match("P3", UserName("P3"), "ROCK", "P3", UserName("P3"), "ROCK")>>

SeasonMatches ==
    MatchesOf("P1", "P2") \o MatchesOf("P1", "P3") \o MatchesOf("P2", "P3")
        \o RenamedMatches

SelfSeasonMatches ==
    MatchesOf("P1", "P2") \o MatchesOf("P1", "P3") \o MatchesOf("P2", "P3")
        \o SelfMatches

\* The kind of a recorded match.
KindOf(kinds, r) ==
    CHOOSE k \in 1..Len(kinds) :
        kinds[k] = Match(r.player1_id, r.player1_name, r.player1_move,
                         r.player2_id, r.player2_name, r.player2_move)

\* A match of kind k is created in channel C and completed.
RecordSeasonMatch(kinds, k) ==
    /\ Len(games) < MaxSeason
    /\ games # <<>> => KindOf(kinds, games[Len(games)]) <= k
    /\ games' = update_game(
                    create_game(games, "C", kinds[k].player1_id, kinds[k].player1_name,
                                kinds[k].player1_move, NULL, NULL),
                    Len(games) + 1, kinds[k].player2_id, kinds[k].player2_name,
                    kinds[k].player2_move)
    /\ target' = Append(target, NULL)
    /\ UNCHANGED <<inflight, resp>>

NextSeason == \E k \in 1..Len(SeasonMatches) : RecordSeasonMatch(SeasonMatches, k)

SpecSeason == Init /\ [][NextSeason]_vars

NextSelfSeason ==
    \E k \in 1..Len(SelfSeasonMatches) : RecordSeasonMatch(SelfSeasonMatches, k)

SpecSelfSeason == Init /\ [][NextSelfSeason]_vars

(***************************************************************************)
(* The per-gesture analytics of lib/database.py: the rows of each query,   *)
(* then the list or dict the Python code makes of them.  A function that   *)
(* may return None returns the set of the values it may return, the empty  *)
(* set standing for None.                                                  *)
(***************************************************************************)
\* Python's ZeroDivisionError where the value of a quotient would be: no rate
\* is negative.
ZeroDivisionError == -1

\* round(n / d * 100, 1) in tenths of a percent.  Python rounds a float to
\* the nearest tenth; n / d * 100 falls halfway between two tenths only when
\* d is a multiple of 16, beyond the counts of the histories below.
PyPercent(n, d) == IF d = 0 THEN ZeroDivisionError ELSE RoundedPercent(n, d)

\* GROUP BY move with the COUNTs of wins, losses, draws and rows.
GroupByMove(results) ==
    {[move |-> m,
      wins |-> Cardinality({x \in results : x.move = m /\ x.result = "WIN"}),
      losses |-> Cardinality({x \in results : x.move = m /\ x.result = "LOSS"}),
      draws |-> Cardinality({x \in results : x.move = m /\ x.result = "DRAW"}),
      total_games |-> Cardinality({x \in results : x.move = m})] :
        m \in {x.move : x \in results}}

\* sum(row[4] for row in results)
RECURSIVE SumTotalGames(_)
SumTotalGames(results) ==
    IF results = <<>> THEN 0
    ELSE Head(results).total_games + SumTotalGames(Tail(results))

\* The lists a query ending in ORDER BY total_games DESC may return.
ByTotalGames(rows) ==
    {a \in Arrangements(rows) :
        \A i, j \in 1..Len(a) : i < j => a[j].total_games <= a[i].total_games}

\* The first branch of game_results alone: the matches player1_id opened.
h2h_game_results_as_first(player1_id, player2_id) ==
    {[game |-> r.id, branch |-> 1, move |-> r.player1_move,
      result |-> first_move_result(r.player1_move, r.player2_move),
      opponent_move |-> r.player2_move] :
        r \in {q \in CompleteRows : /\ q.player1_id = player1_id
                                    /\ q.player2_id = player2_id}}

\* get_head_to_head_stats, WITH game_results: the matches of player1_id
\* against player2_id, seen from player1_id.
h2h_game_results(player1_id, player2_id) ==
    {[game |-> r.id, branch |-> 1, move |-> r.player1_move,
      result |-> first_move_result(r.player1_move, r.player2_move),
      opponent_move |-> r.player2_move] :
        r \in {q \in CompleteRows : /\ q.player1_id = player1_id
                                    /\ q.player2_id = player2_id}}
    \cup
    {[game |-> r.id, branch |-> 2, move |-> r.player2_move,
      result |-> second_move_result(r.player1_move, r.player2_move),
      opponent_move |-> r.player1_move] :
        r \in {q \in CompleteRows : /\ q.player1_id = player2_id
                                    /\ q.player2_id = player1_id}}

\* get_head_to_head_stats, WITH opponent_moves: the rows
\* GROUP BY opponent_move ORDER BY COUNT(*) DESC LIMIT 1 may return.
h2h_opponent_moves(results) ==
    LET times(m) == Cardinality({x \in results : x.opponent_move = m}) IN
    {[opponent_move |-> m, times_played |-> times(m)] :
        m \in {n \in {x.opponent_move : x \in results} :
                  \A k \in {x.opponent_move : x \in results} : times(k) <= times(n)}}

\* The counter strategy of get_head_to_head_stats.
counter_strategy(opponent_move) ==
    CASE opponent_move = "ROCK" -> "PAPER"
      [] opponent_move = "PAPER" -> "SCISSORS"
      [] opponent_move = "SCISSORS" -> "ROCK"
      [] OTHER -> NULL

\* A dict of the stats list of get_head_to_head_stats.
h2h_move_stat(row, total_games) ==
    [move |-> row.move, wins |-> row.wins, losses |-> row.losses,
     draws |-> row.draws, total_games |-> row.total_games,
     win_rate |-> IF row.total_games > 0
                  THEN PyPercent(row.wins, row.total_games) ELSE 0,
     play_rate |-> IF total_games > 0
                   THEN PyPercent(row.total_games, total_games) ELSE 0]

\* get_head_to_head_stats: the dicts it may return; {} stands for None.
get_head_to_head_stats(player1_id, player2_id) ==
    LET results == h2h_game_results(player1_id, player2_id) IN
    {[moves |-> [i \in 1..Len(rows) |-> h2h_move_stat(rows[i], SumTotalGames(rows))],
      opponent_favorite |-> o.opponent_move,
      recommended_counter |-> counter_strategy(o.opponent_move),
      total_games |-> SumTotalGames(rows)] :
        rows \in ByTotalGames(GroupByMove(results)), o \in h2h_opponent_moves(results)}

\* get_move_stats, WITH game_results: the gesture and the result of the
\* first player of every completed match.
move_game_results ==
    {[game |-> r.id, branch |-> 1, move |-> r.player1_move,
      result |-> first_move_result(r.player1_move, r.player2_move)] :
        r \in CompleteRows}

\* The dict without the test of wins + losses in its win_rate.
move_stat_undecided(row, total_games) ==
    [move |-> row.move, wins |-> row.wins, losses |-> row.losses,
     draws |-> row.draws, total_games |-> row.total_games,
     win_rate |-> IF row.total_games > 0
                  THEN PyPercent(row.wins, row.wins + row.losses) ELSE 0,
     play_rate |-> IF total_games > 0
                   THEN PyPercent(row.total_games, total_games) ELSE 0]

\* A dict of the list get_move_stats and get_player_stats return.
move_stat(row, total_games) ==
    [move |-> row.move, wins |-> row.wins, losses |-> row.losses,
     draws |-> row.draws, total_games |-> row.total_games,
     win_rate |-> IF row.total_games > 0 /\ row.wins + row.losses # 0
                  THEN PyPercent(row.wins, row.wins + row.losses) ELSE 0,
     play_rate |-> IF total_games > 0
                   THEN PyPercent(row.total_games, total_games) ELSE 0]

\* get_move_stats: the lists it may return.
get_move_stats ==
    {[i \in 1..Len(rows) |-> move_stat(rows[i], SumTotalGames(rows))] :
        rows \in ByTotalGames(GroupByMove(move_game_results))}

\* get_player_stats, WITH game_results: the gestures of user_id as first
\* and as second player, with their results.
player_game_results(user_id) ==
    {[game |-> r.id, branch |-> 1, move |-> r.player1_move,
      result |-> first_move_result(r.player1_move, r.player2_move)] :
        r \in {q \in CompleteRows : q.player1_id = user_id}}
    \cup
    {[game |-> r.id, branch |-> 2, move |-> r.player2_move,
      result |-> second_move_result(r.player1_move, r.player2_move)] :
        r \in {q \in CompleteRows : q.player2_id = user_id}}

\* get_player_stats: the lists it may return.
get_player_stats(user_id) ==
    {[i \in 1..Len(rows) |-> move_stat(rows[i], SumTotalGames(rows))] :
        rows \in ByTotalGames(GroupByMove(player_game_results(user_id)))}

\* get_move_stats_breakdown, WITH all_moves; a user_id of None keeps the
\* matches of every player.
breakdown_all_moves(user_id) ==
    {[game |-> r.id, branch |-> 1, move |-> r.player1_move, play_order |-> "FIRST",
      result |-> first_move_result(r.player1_move, r.player2_move)] :
        r \in {q \in CompleteRows : user_id = NULL \/ q.player1_id = user_id}}
    \cup
    {[game |-> r.id, branch |-> 2, move |-> r.player2_move, play_order |-> "SECOND",
      result |-> second_move_result(r.player1_move, r.player2_move)] :
        r \in {q \in CompleteRows : user_id = NULL \/ q.player2_id = user_id}}

\* GROUP BY move, play_order with the COUNTs of wins, losses, draws and rows.
GroupByMoveOrder(results) ==
    {[move |-> k[1], play_order |-> k[2],
      wins |-> Cardinality({x \in results : /\ x.move = k[1] /\ x.play_order = k[2]
                                            /\ x.result = "WIN"}),
      losses |-> Cardinality({x \in results : /\ x.move = k[1] /\ x.play_order = k[2]
                                              /\ x.result = "LOSS"}),
      draws |-> Cardinality({x \in results : /\ x.move = k[1] /\ x.play_order = k[2]
                                             /\ x.result = "DRAW"}),
      total_games |-> Cardinality({x \in results : /\ x.move = k[1]
                                                   /\ x.play_order = k[2]})] :
        k \in {<<x.move, x.play_order>> : x \in results}}

\* stats[move][order_key] of the two breakdowns.
order_stat(row) ==
    [wins |-> row.wins, losses |-> row.losses, draws |-> row.draws,
     total_games |-> row.total_games,
     win_rate |-> IF row.total_games > 0
                  THEN PyPercent(row.wins, row.total_games) ELSE 0]

\* The stats dict of the two breakdowns: under each gesture of the rows,
\* 'first' and 'second', each the set holding its dict and empty for None.
breakdown_stats(rows) ==
    [m \in {x.move : x \in rows} |->
        [first |-> {order_stat(x) : x \in {y \in rows : /\ y.move = m
                                                        /\ y.play_order = "FIRST"}},
         second |-> {order_stat(x) : x \in {y \in rows : /\ y.move = m
                                                         /\ y.play_order # "FIRST"}}]]

\* get_move_stats_breakdown: the dicts it may return; {} stands for None.
get_move_stats_breakdown(user_id) ==
    LET rows == GroupByMoveOrder(breakdown_all_moves(user_id)) IN
    IF rows = {} THEN {} ELSE {breakdown_stats(rows)}

\* get_head_to_head_stats_breakdown, WITH game_results of the first query.
h2hb_game_results(player1_id, player2_id) ==
    {[game |-> r.id, branch |-> 1, move |-> r.player1_move, play_order |-> "FIRST",
      result |-> first_move_result(r.player1_move, r.player2_move),
      opponent_move |-> r.player2_move] :
        r \in {q \in CompleteRows : /\ q.player1_id = player1_id
                                    /\ q.player2_id = player2_id}}
    \cup
    {[game |-> r.id, branch |-> 2, move |-> r.player2_move, play_order |-> "SECOND",
      result |-> second_move_result(r.player1_move, r.player2_move),
      opponent_move |-> r.player1_move] :
        r \in {q \in CompleteRows : /\ q.player1_id = player2_id
                                    /\ q.player2_id = player1_id}}

\* get_head_to_head_stats_breakdown, WITH game_results of the second query:
\* the matches player1_id opened carry 'SECOND', those player2_id opened
\* carry 'FIRST'.
h2hb_opponent_results(player1_id, player2_id) ==
    {[game |-> r.id, branch |-> 1, move |-> r.player1_move, play_order |-> "SECOND",
      result |-> first_move_result(r.player1_move, r.player2_move),
      opponent_move |-> r.player2_move] :
        r \in {q \in CompleteRows : /\ q.player1_id = player1_id
                                    /\ q.player2_id = player2_id}}
    \cup
    {[game |-> r.id, branch |-> 2, move |-> r.player2_move, play_order |-> "FIRST",
      result |-> second_move_result(r.player1_move, r.player2_move),
      opponent_move |-> r.player1_move] :
        r \in {q \in CompleteRows : /\ q.player1_id = player2_id
                                    /\ q.player2_id = player1_id}}

\* The rows of the second query, GROUP BY play_order, opponent_move.  The
\* win_rate COALESCE(wins / NULLIF(decided, 0), 0) is kept as the fraction
\* rate_wins / rate_games, 0 / 1 when no match of the group was decided.
h2hb_opponent_rows(results) ==
    {LET group == {x \in results : x.opponent_move = k[1] /\ x.play_order = k[2]}
         wins == Cardinality({x \in group : x.result = "WIN"})
         decided == Cardinality({x \in group : x.result # "DRAW"})
     IN  [opponent_move |-> k[1], play_order |-> k[2],
          times_played |-> Cardinality(group),
          rate_wins |-> IF decided = 0 THEN 0 ELSE wins,
          rate_games |-> IF decided = 0 THEN 1 ELSE decided] :
        k \in {<<x.opponent_move, x.play_order>> : x \in results}}

\* ORDER BY win_rate DESC, times_played DESC puts a strictly before b.
h2hb_before(a, b) ==
    \/ a.rate_wins * b.rate_games > b.rate_wins * a.rate_games
    \/ /\ a.rate_wins * b.rate_games = b.rate_wins * a.rate_games
       /\ a.times_played > b.times_played

\* move_totals[move] after the loop over the rows of the second query.
RECURSIVE move_totals(_, _)
move_totals(results, move) ==
    IF results = <<>> THEN 0
    ELSE (IF Head(results).opponent_move = move THEN Head(results).times_played ELSE 0)
             + move_totals(Tail(results), move)

\* The place of a gesture among the keys of move_totals: the first row with
\* it.
first_row_with(results, move) ==
    CHOOSE i \in 1..Len(results) :
        /\ results[i].opponent_move = move
        /\ \A j \in 1..(i - 1) : results[j].opponent_move # move

\* max(move_totals.items(), key=lambda x: x[1])[0] if move_totals else None:
\* the first key of the greatest total.
most_played_move(results) ==
    IF results = <<>> THEN NULL
    ELSE CHOOSE m \in {results[i].opponent_move : i \in 1..Len(results)} :
            \A n \in {results[i].opponent_move : i \in 1..Len(results)} \ {m} :
                \/ move_totals(results, n) < move_totals(results, m)
                \/ /\ move_totals(results, n) = move_totals(results, m)
                   /\ first_row_with(results, m) < first_row_with(results, n)

\* next((row[0] for row in results if row[1] == play_order), None)
first_of_order(results, play_order) ==
    IF \E i \in 1..Len(results) : results[i].play_order = play_order
    THEN results[CHOOSE i \in 1..Len(results) :
                    /\ results[i].play_order = play_order
                    /\ \A j \in 1..(i - 1) : results[j].play_order # play_order
                ].opponent_move
    ELSE NULL

\* sum(row[5] for row in results) over the rows of the first query.
RECURSIVE SumOfTotals(_)
SumOfTotals(rows) ==
    IF rows = {} THEN 0
    ELSE LET x == CHOOSE y \in rows : TRUE
         IN  x.total_games + SumOfTotals(rows \ {x})

\* get_head_to_head_stats_breakdown: the dicts it may return; {} stands for
\* None.
get_head_to_head_stats_breakdown(player1_id, player2_id) ==
    LET rows == GroupByMoveOrder(h2hb_game_results(player1_id, player2_id))
        opponent_rows == h2hb_opponent_rows(h2hb_opponent_results(player1_id, player2_id))
    IN  IF rows = {} THEN {}
        ELSE {[moves |-> breakdown_stats(rows),
               opponent_favorite |-> most_played_move(results),
               total_games |-> SumOfTotals(rows),
               best_opener |-> first_of_order(results, "FIRST"),
               best_counter |-> first_of_order(results, "SECOND")] :
                 results \in {a \in Arrangements(opponent_rows) :
                                 \A i, j \in 1..Len(a) : i < j => ~h2hb_before(a[j], a[i])}}

\* The groups of get_user_stats' nemesis, best_against and most_draws:
\* GROUP BY the id and the name of the opponent, with COUNT(*).
opponent_groups(results, id_column, name_column) ==
    {[opponent_id |-> k[1], opponent_name |-> k[2],
      count |-> Cardinality({x \in results : /\ x[id_column] = k[1]
                                             /\ x[name_column] = k[2]})] :
        k \in {<<x[id_column], x[name_column]>> : x \in results}}

\* The rows ORDER BY count DESC LIMIT 1 may return: none of no group.
limit_1(groups) == {g \in groups : \A h \in groups : h.count <= g.count}

\* get_user_stats, WITH nemesis.
user_nemesis(user_id) ==
    limit_1(opponent_groups({x \in user_game_results(user_id) :
                                x.loser_id = user_id /\ x.result = "WIN"},
                            "winner_id", "winner_name"))

\* get_user_stats, WITH best_against.
user_best_against(user_id) ==
    limit_1(opponent_groups({x \in user_game_results(user_id) :
                                x.winner_id = user_id /\ x.result = "WIN"},
                            "loser_id", "loser_name"))

\* get_user_stats, WITH most_draws.
user_most_draws(user_id) ==
    limit_1(opponent_groups({x \in user_game_results(user_id) : x.result = "DRAW"},
                            "loser_id", "loser_name"))

\* get_user_stats: the dicts it may return.  Each of nemesis, best_against
\* and most_draws is the set holding the dict, and empty for None; a LEFT JOIN
\* of no row gives the columns NULL.
get_user_stats(user_id) ==
    LET s == user_stats(user_id)
        total_games == s.wins + s.losses + s.draws
    IN  {[wins |-> s.wins, losses |-> s.losses, draws |-> s.draws,
          total_games |-> total_games,
          win_rate |-> IF total_games > 0 THEN PyPercent(s.wins, total_games) ELSE 0,
          nemesis |-> n, best_against |-> b, most_draws |-> md] :
            n \in IF user_nemesis(user_id) = {} THEN {{}}
                  ELSE {{[user_id |-> g.opponent_id, user_name |-> g.opponent_name,
                          wins |-> g.count]} : g \in user_nemesis(user_id)},
            b \in IF user_best_against(user_id) = {} THEN {{}}
                  ELSE {{[user_id |-> g.opponent_id, user_name |-> g.opponent_name,
                          wins |-> g.count]} : g \in user_best_against(user_id)},
            md \in IF user_most_draws(user_id) = {}
                   THEN {{[user_id |-> NULL, user_name |-> NULL, draws |-> NULL]}}
                   ELSE {{[user_id |-> g.opponent_id, user_name |-> g.opponent_name,
                           draws |-> g.count]} : g \in user_most_draws(user_id)}}

(***************************************************************************)
(* The duels the per-gesture analytics read: completed matches between P1  *)
(* and P2 with every pair of gestures and either of them playing first,    *)
(* beside matches either of them played against P3.                        *)
(***************************************************************************)
\* Bound on the number of matches of a duel history.
MaxDuel == 4

GestureList == <<"ROCK", "PAPER", "SCISSORS">>

\* The nine matches of player1_id against player2_id, one per pair of
\* gestures.
AllMatchesOf(player1_id, player2_id) ==
    [k \in 1..9 |->
        Match(player1_id, UserName(player1_id), GestureList[((k - 1) \div 3) + 1],
              player2_id, UserName(player2_id), GestureList[((k - 1) % 3) + 1])]

DuelMatches ==
    AllMatchesOf("P1", "P2") \o AllMatchesOf("P2", "P1")
        \o <<Match("P1", UserName("P1"), "ROCK", "P3", UserName("P3"), "SCISSORS"),
             Match("P3", UserName("P3"), "PAPER", "P2", UserName("P2"), "PAPER")>>

NextDuel ==
    \E k \in 1..Len(DuelMatches) :
        /\ Len(games) < MaxDuel
        /\ RecordSeasonMatch(DuelMatches, k)

SpecDuel == Init /\ [][NextDuel]_vars

(***************************************************************************)
(* Gesture of lib/types.py on the text it is given, a Python str being the  *)
(* sequence of its characters.                                              *)
(***************************************************************************)
\* The characters str.strip() removes, as far as the texts below hold them.
Whitespace == {" ", "\t"}

\* str.strip()
strip(chars) ==
    IF \A i \in 1..Len(chars) : chars[i] \in Whitespace THEN <<>>
    ELSE SubSeq(chars,
                CHOOSE i \in 1..Len(chars) :
                    /\ chars[i] \notin Whitespace
                    /\ \A j \in 1..(i - 1) : chars[j] \in Whitespace,
                CHOOSE i \in 1..Len(chars) :
                    /\ chars[i] \notin Whitespace
                    /\ \A j \in (i + 1)..Len(chars) : chars[j] \in Whitespace)

\* Gesture.emoji
emoji(gesture) ==
    CASE gesture = "ROCK" -> <<":", "r", "o", "c", "k", ":">>
      [] gesture = "PAPER" -> <<":", "l", "e", "a", "v", "e", "s", ":">>
      [] gesture = "SCISSORS" -> <<":", "s", "c", "i", "s", "s", "o", "r", "s", ":">>

\* Gesture.from_input on the text of a request: text.upper().strip(), then
\* the mapping.
Gesture_from_input(chars) == from_input(Str(strip(upper(chars))))

\* The keys of the mapping of Gesture.from_input, with their gestures.
mapping ==
    <<[text |-> <<"R", "O", "C", "K">>, gesture |-> "ROCK"],
      [text |-> <<":", "R", "O", "C", "K", ":">>, gesture |-> "ROCK"],
      [text |-> <<"P", "I", "E", "R", "R", "E">>, gesture |-> "ROCK"],
      [text |-> <<"C", "A", "I", "L", "L", "O", "U">>, gesture |-> "ROCK"],
      [text |-> <<"C", "A", "I", "L", "L", "O", "U", "X">>, gesture |-> "ROCK"],
      [text |-> <<":", "C", "A", "I", "L", "L", "O", "U", ":">>, gesture |-> "ROCK"],
      [text |-> <<"P", "A", "P", "E", "R">>, gesture |-> "PAPER"],
      [text |-> <<"F", "E", "U", "I", "L", "L", "E">>, gesture |-> "PAPER"],
      [text |-> <<"F", "E", "U", "I", "L", "L", "E", "S">>, gesture |-> "PAPER"],
      [text |-> <<":", "L", "E", "A", "V", "E", "S", ":">>, gesture |-> "PAPER"],
      [text |-> <<":", "F", "E", "U", "I", "L", "L", "E", ":">>, gesture |-> "PAPER"],
      [text |-> <<"S", "C", "I", "S", "S", "O", "R", "S">>, gesture |-> "SCISSORS"],
      [text |-> <<"C", "I", "S", "E", "A", "U", "X">>, gesture |-> "SCISSORS"],
      [text |-> <<":", "S", "C", "I", "S", "S", "O", "R", "S", ":">>, gesture |-> "SCISSORS"],
      [text |-> <<":", "C", "I", "S", "E", "A", "U", "X", ":">>, gesture |-> "SCISSORS"]>>

\* str.lower(), character by character.
lower(chars) ==
    [i \in 1..Len(chars) |->
        IF \E k \in 1..Len(UpperCase) : UpperCase[k] = chars[i]
        THEN LowerCase[CHOOSE k \in 1..Len(UpperCase) : UpperCase[k] = chars[i]]
        ELSE chars[i]]

\* The texts a key of the mapping is typed as: as it is, in lower case, and
\* with whitespace before and after it.
Typed(chars) ==
    {chars, lower(chars), <<" ">> \o lower(chars), chars \o <<" ">>,
     <<"\t">> \o chars \o <<" ", " ">>}

\* Texts that are no key however they are trimmed and cased.
OtherTexts ==
    {<<>>, <<" ">>, <<"L", "I", "Z", "A", "R", "D">>, <<"R", "O", "C">>, <<"R", "O", "C", "K", "S">>, <<"R", " ", "O", "C", "K">>,
     <<":", "R", "O", "C", "K">>, <<"L", "E", "A", "V", "E", "S">>, <<"r", "o", "c", "k", " ", "p", "a", "p", "e", "r">>,
     <<":", ":", "s", "c", "i", "s", "s", "o", "r", "s", ":", ":">>}

\* A text is given to Gesture.from_input: key is the place in the mapping of
\* the key the text was typed from, 0 for the other texts.
InitGesture ==
    /\ games = <<>>
    /\ target = <<>>
    /\ inflight = {}
    /\ \E k \in 0..Len(mapping) :
          \E t \in IF k = 0 THEN OtherTexts ELSE Typed(mapping[k].text) :
              resp = [kind |-> "text", key |-> k, text |-> t, gesture |-> NULL]

\* Gesture.from_input returns a gesture or raises ValueError.
FromInput ==
    /\ resp.kind = "text"
    /\ resp' = [resp EXCEPT !.kind = "gesture",
                            !.gesture = Gesture_from_input(resp.text)]
    /\ UNCHANGED <<games, target, inflight>>

SpecGesture == InitGesture /\ [][FromInput]_vars

(***************************************************************************)
(* Histories with pending matches: completed matches of P1 against P2 and  *)
(* of P2 against P3, then open matches and challenges nobody has answered. *)
(***************************************************************************)
\* Bounds on the number of completed and of pending matches of a history.
MaxCounted == 6
MaxPending == 2

PendingSeasonMatches ==
    MatchesOf("P1", "P2")
        \o <<Match("P2", UserName("P2"), "PAPER", "P3", UserName("P3"), "ROCK")>>

\* A completed match is recorded while no match is pending.
RecordBeforePending ==
    \E k \in 1..Len(PendingSeasonMatches) :
        /\ Len(games) < MaxCounted
        /\ \A g \in 1..Len(games) : games[g].status = "complete"
        /\ RecordSeasonMatch(PendingSeasonMatches, k)

\* create_game as api/shifumi.py calls it: an open match when target_user is
\* NULL, a challenge of target_user otherwise.  The queries read neither the
\* gesture nor the channel of a pending match, so one of each is created, by
\* a player of the completed matches or by P3, who may have completed none.
CreatePending ==
    \E user_id \in {"P1", "P3"}, target_user \in {"P3", NULL}, move \in {"ROCK"} :
        /\ target_user # user_id
        /\ Cardinality({g \in 1..Len(games) : games[g].status = "pending"}) < MaxPending
        /\ games' = create_game(games, "C", user_id, UserName(user_id), move,
                                target_user, NULL)
        /\ target' = Append(target, target_user)
        /\ UNCHANGED <<inflight, resp>>

NextPending == RecordBeforePending \/ CreatePending

SpecPending == Init /\ [][NextPending]_vars

(***************************************************************************)
(* The two ends of a request: requests.post to the response_url, which     *)
(* returns or raises, and the 200 written back to Slack, which is written  *)
(* or fails.  Both handlers post first and acknowledge after.              *)
(***************************************************************************)
\* A response with what became of its delivery and of its acknowledgment.
Outcome(response, post_raises, ack_raises, delivered, acknowledged) ==
    [kind |-> response.kind, user |-> response.user, button |-> response.button,
     game |-> response.game, result |-> response.result,
     post_raises |-> post_raises, ack_raises |-> ack_raises,
     delivered |-> delivered, acknowledged |-> acknowledged]

\* api/shifumi.py from create_game on, for a valid gesture (and a target that
\* is not the user): the game is stored, requests.post is called outside any
\* try, and the 200 is sent after it returned.
CommandAndPost(user_id, target_user, channel_id, text, post_raises, ack_raises) ==
    LET move == from_input(text) IN
    /\ move # ValueError
    /\ target_user # user_id
    /\ Len(games) < MaxGames
    /\ games' = create_game(games, channel_id, user_id, UserName(user_id), move,
                            target_user, NULL)
    /\ target' = Append(target, target_user)
    /\ resp' = Outcome(Response(IF target_user = NULL THEN "waiting" ELSE "challenge",
                                user_id, 0, Len(games) + 1, NULL),
                       post_raises, ack_raises,
                       ~post_raises, ~post_raises /\ ~ack_raises)
    /\ UNCHANGED inflight

\* api/response.py from update_game on: requests.post and the 200 are inside
\* the try, and the except branch sends a 200 of its own.
PressWriteAndPost(h, action_id, post_raises, ack_raises) ==
    LET move == action_move(action_id) IN
    /\ h \in inflight
    /\ inflight' = inflight \ {h}
    /\ UNCHANGED target
    /\ games' = update_game(games, h.game_id, h.user_id, UserName(h.user_id), move)
    /\ resp' = Outcome(IF h.branch = "challenge"
                       THEN Response("challenge_result", h.user_id, h.button, h.game_id,
                                     challenge_result(h.player1_move, move,
                                                      h.player1_id, h.user_id))
                       ELSE Response("game_result", h.user_id, h.button, h.game_id,
                                     game_result(h.player1_move, move,
                                                 h.player1_id, h.user_id)),
                       post_raises, ack_raises, ~post_raises, ~ack_raises)

\* A command with a valid gesture, from P1 or P2 in channel C.
DeliveredCommand ==
    \E user_id \in {"P1", "P2"}, target_user \in {"P2", NULL}, text \in {"PIERRE"},
       post_raises \in BOOLEAN, ack_raises \in BOOLEAN :
        CommandAndPost(user_id, target_user, "C", text, post_raises, ack_raises)

DeliveredResult ==
    \E h \in inflight, action_id \in {"play_paper"},
       post_raises \in BOOLEAN, ack_raises \in BOOLEAN :
        PressWriteAndPost(h, action_id, post_raises, ack_raises)

NextDelivery ==
    \/ DeliveredCommand
    \/ PressGameButton
    \/ PressChallengeButton
    \/ DeliveredResult

SpecDelivery == Init /\ [][NextDelivery]_vars

(***************************************************************************)
(* The claims.                                                             *)
(***************************************************************************)
Ids == 1..Len(games)
ResultKinds == {"game_result", "challenge_result"}

\* The open (non-targeted) pending matches of an arena.
OpenPending(channel_id) ==
    {r \in Rows : /\ r.channel_id = channel_id
                  /\ r.status = "pending"
                  /\ target[r.id] = NULL}

\* C1: when two players respond to the same pending open match and both read
\* it before either writes, the response that writes second, to a match that
\* is complete by then, changes no match record and reports that the match is
\* no longer available.
C1_RaceLoserObservesNoOp ==
    [][\A h \in inflight :
          (h \notin inflight' /\ h.branch = "game"
              /\ games[h.game_id].status = "complete")
          => (games' = games /\ resp'.kind = "game_not_found")]_vars

\* C2: update_game applied to an id that does not exist, or by a handler to a
\* match that is already complete, leaves every match record unchanged.
C2_CompleteIsNoOpUnlessPending ==
    [][/\ \A id \in (0..(MaxGames + 1)) \ Ids, p \in Players, m \in Gesture :
              update_game(games, id, p, UserName(p), m) = games
       /\ \A h \in inflight :
              (h \notin inflight' /\ games[h.game_id].status = "complete")
              => games' = games]_vars

\* C3: a pending directed challenge becomes complete only through a request
\* whose acting player, the player 2 it records, is the challenge's target.
C3_OnlyTargetCompletesChallenge ==
    [][\A g \in Ids :
          (games[g].status = "pending" /\ target[g] # NULL /\ games'[g] # games[g])
          => (games'[g].status = "complete" /\ games'[g].player2_id = target[g])]_vars

\* C4: every complete match has a player 2 other than its player 1.
C4_CompletePlayersDistinct ==
    \A r \in Rows : r.status = "complete" => r.player2_id # r.player1_id

\* C5: when the target of a pending directed challenge presses a button of
\* the challenge message (whose value is the match id), the answer to that
\* press leaves the challenge complete with the target as player 2 and
\* announces the outcome of the two gestures.
C5_TargetPressCompletesChallenge ==
    [][\A g \in Ids :
          (/\ games[g].status = "pending"
           /\ target[g] # NULL
           /\ resp' # resp
           /\ resp'.button = g
           /\ resp'.user = target[g])
          => (/\ games'[g].status = "complete"
              /\ games'[g].player2_id = target[g]
              /\ games'[g].player2_move \in Gesture
              /\ resp'.kind \in ResultKinds
              /\ resp'.game = g
              /\ resp'.result = game_result(games[g].player1_move,
                                            games'[g].player2_move,
                                            games[g].player1_id, target[g]))]_vars

\* C6: get_pending_game never returns a match that was created with a target.
C6_OpenLookupSkipsChallenges ==
    \A channel_id \in Channels :
        \A t \in get_pending_game(channel_id) : target[t.id] = NULL

\* C6 witness: the most recently created pending match of an arena is a
\* directed challenge, and get_pending_game returns an older open match.
C6_ChallengeIsLatestPending ==
    \E g \in Ids :
        /\ games[g].status = "pending"
        /\ target[g] # NULL
        /\ \A r \in Rows : r.created_at <= games[g].created_at
        /\ get_pending_game(games[g].channel_id) # {}

\* C7: get_pending_game(arena) returns the open pending match of that arena
\* with the latest creation time, and None exactly when the arena has none.
C7_OpenLookupReturnsLatestOpen ==
    \A channel_id \in Channels :
        /\ get_pending_game(channel_id) = {} <=> OpenPending(channel_id) = {}
        /\ \A t \in get_pending_game(channel_id) :
              /\ \E r \in OpenPending(channel_id) : t = GameTuple(r)
              /\ \A q \in OpenPending(channel_id) :
                    q.created_at <= games[t.id].created_at

\* C7 witness: an arena holds two open pending matches, and the later one is
\* returned.
C7_TwoOpenInOneArena ==
    \E channel_id \in Channels :
        /\ Cardinality(OpenPending(channel_id)) = 2
        /\ \A t \in get_pending_game(channel_id) : t.id = 2

\* The winner the claim names for a pair of gestures.
ClaimedOutcome(move1, move2) ==
    IF move1 = move2 THEN "draw"
    ELSE IF <<move1, move2>> \in {<<"ROCK", "SCISSORS">>, <<"PAPER", "ROCK">>,
                                  <<"SCISSORS", "PAPER">>}
         THEN "first"
         ELSE "second"

\* The winner a handler's result names, as draw, first or second player.
Named(result) == IF result = "Egalite" THEN "draw" ELSE result

\* C8: for every completed match, whatever its pair of gestures, both
\* branches of the response handler and the analytics queries name the
\* outcome the claim states: a draw for equal gestures, the first player for
\* (ROCK,SCISSORS), (PAPER,ROCK), (SCISSORS,PAPER), else the second player.
C8_OutcomeIsTheSameEverywhere ==
    \A r \in Rows :
        LET m1 == r.player1_move
            m2 == r.player2_move
            outcome == ClaimedOutcome(m1, m2)
        IN  /\ Named(game_result(m1, m2, "first", "second")) = outcome
            /\ Named(challenge_result(m1, m2, "first", "second")) = outcome
            /\ first_player_wins(m1, m2) <=> outcome = "first"
            /\ second_player_wins(m1, m2) <=> outcome = "second"
            /\ draw_game(m1, m2) <=> outcome = "draw"
            /\ first_move_result(m1, m2) =
                  (CASE outcome = "first" -> "WIN"
                     [] outcome = "second" -> "LOSS"
                     [] outcome = "draw" -> "DRAW")
            /\ second_move_result(m1, m2) =
                  (CASE outcome = "first" -> "LOSS"
                     [] outcome = "second" -> "WIN"
                     [] outcome = "draw" -> "DRAW")

\* C8 witness: a history with a match the second player won and a draw.
C8_SecondWinsAndDraw ==
    /\ \E r \in Rows : r.player1_move = "PAPER" /\ r.player2_move = "SCISSORS"
    /\ \E r \in Rows : r.player1_move = "ROCK" /\ r.player2_move = "ROCK"

\* C9: get_game_by_id returns a record exactly for the ids of pending
\* matches, that match's record, and None for a match a handler completed.
C9_LookupReturnsExactlyPending ==
    /\ \A id \in 0..(MaxGames + 1) :
          /\ get_game_by_id(id) # {} <=> (id \in Ids /\ games[id].status = "pending")
          /\ \A t \in get_game_by_id(id) : t = GameTuple(games[id])
    /\ resp.kind \in ResultKinds => get_game_by_id(resp.game) = {}
    /\ \A g \in Ids : games[g].player2_move # NULL => get_game_by_id(g) = {}

\* C9 witness: a match was created and then completed, and get_game_by_id
\* returns None for it.
C9_CreatedThenCompleted ==
    /\ resp.kind \in ResultKinds
    /\ games[resp.game].status = "complete"
    /\ get_game_by_id(resp.game) = {}

\* C10 as claimed: a match is pending iff its player-2 id, name and gesture
\* are all null, and complete iff all three are set.
C10_PendingIffPlayer2Null ==
    \A r \in Rows :
        /\ r.status = "pending" <=>
              (r.player2_id = NULL /\ r.player2_name = NULL /\ r.player2_move = NULL)
        /\ r.status = "complete" <=>
              (r.player2_id # NULL /\ r.player2_name # NULL /\ r.player2_move # NULL)

\* C10 amended: a match is pending iff its player-2 name and gesture are both
\* null, and complete iff its player-2 id, name and gesture are all set; the
\* player-2 id of a pending match is the target it was created with, null for
\* an open match.
C10_PendingIffPlayer2Unplayed ==
    \A r \in Rows :
        /\ r.status \in {"pending", "complete"}
        /\ r.status = "pending" <=> (r.player2_name = NULL /\ r.player2_move = NULL)
        /\ r.status = "complete" <=>
              (r.player2_id # NULL /\ r.player2_name # NULL /\ r.player2_move # NULL)
        /\ r.status = "pending" => r.player2_id = target[r.id]

\* C10 witness: a pending directed challenge beside a complete match.
C10_PendingChallengeAndComplete ==
    /\ \E r \in Rows : r.status = "pending" /\ r.player2_id # NULL
    /\ \E r \in Rows : r.status = "complete"

\* The pending directed challenges between two players, in either direction.
PendingChallenges(a, b) ==
    {r \in Rows : /\ r.status = "pending"
                  /\ target[r.id] # NULL
                  /\ {r.player1_id, target[r.id]} = {a, b}}

\* C11: in every reachable state there is at most one pending directed
\* challenge per unordered pair of players, and a challenge command between
\* two players who already have a pending challenge creates no match.
C11_OnePendingChallengePerPair ==
    [][/\ \A a \in Players, b \in Players : Cardinality(PendingChallenges(a, b)) <= 1
       /\ \A g \in (1..Len(games')) \ Ids :
              target'[g] # NULL =>
                  PendingChallenges(games'[g].player1_id, target'[g]) = {}]_vars

\* C12: in every reachable state each arena has at most one pending open
\* match: a plain move in an arena that has one creates no second one.
C12_OnePendingOpenPerArena ==
    \A channel_id \in Channels : Cardinality(OpenPending(channel_id)) <= 1

\* C13: after a match is created no step changes its id, arena, player-1 id,
\* player-1 name, player-1 gesture or creation time, no match is deleted, and
\* no match goes from complete back to pending.
C13_CreationFieldsAreFrozen ==
    [][/\ Len(games') >= Len(games)
       /\ \A g \in Ids :
             /\ games'[g].id = games[g].id
             /\ games'[g].channel_id = games[g].channel_id
             /\ games'[g].player1_id = games[g].player1_id
             /\ games'[g].player1_name = games[g].player1_name
             /\ games'[g].player1_move = games[g].player1_move
             /\ games'[g].created_at = games[g].created_at
             /\ games[g].status = "complete" => games'[g].status = "complete"]_vars

\* C13 witness: a match has been completed by update_game while another
\* handler that read it is still about to apply update_game to it again.
C13_CompletedAndStillInFlight ==
    \E h \in inflight :
        /\ games[h.game_id].status = "complete"
        /\ games[h.game_id].player1_move # NULL

\* C14: a player who presses a button in an arena whose current open match
\* (the latest pending non-targeted match) they created is answered with the
\* self-play message and the request changes no match record; a challenge a
\* player aims at themselves is answered with a message and creates no match.
C14_SelfPlayIsRejected ==
    [][/\ \A u \in Players, g \in Ids :
             LET own == \E r \in Latest(OpenPending(games[g].channel_id)) :
                            r.player1_id = u
                 pressed == \/ /\ resp' # resp
                               /\ resp'.user = u
                               /\ resp'.button = g
                               /\ resp'.kind \notin ResultKinds
                            \/ \E h \in inflight' \ inflight :
                                   h.user_id = u /\ h.button = g
             IN  (own /\ pressed) =>
                     /\ resp'.kind = "self_play"
                     /\ resp'.user = u
                     /\ games' = games
                     /\ inflight' = inflight
       /\ (resp' # resp /\ resp'.kind = "self_challenge") => games' = games
       /\ \A g \in (1..Len(games')) \ Ids : target'[g] # games'[g].player1_id]_vars

\* C14 witness: the creator of the current open match of an arena pressed a
\* button there and was answered with the self-play message, the match still
\* pending and open.
C14_CreatorWasRejected ==
    /\ resp.kind = "self_play"
    /\ games[resp.game].player1_id = resp.user
    /\ games[resp.game].status = "pending"
    /\ games[resp.game].player2_id = NULL

\* A mention as Slack escapes it: "<@" user id ">" or "<@" user id "|" name ">".
WellFormedMention(chars) ==
    /\ startswith(chars, <<"<", "@">>)
    /\ chars[Len(chars)] = ">"
    /\ Str(SplitBarFirst(Slice2ToLast(chars))) \in Players

\* A token meant as a mention: it names a user with "@".
IsMention(chars) == \E i \in 1..Len(chars) : chars[i] = "@"

\* A command made of a gesture token that is not recognized, or of a mention
\* and a gesture token of which the mention is malformed or the gesture is
\* not recognized.
InvalidInput(text_parts) ==
    \/ /\ Len(text_parts) = 1
       /\ from_input(Str(upper(text_parts[1]))) = ValueError
    \/ /\ Len(text_parts) = 2
       /\ IsMention(text_parts[1])
       /\ \/ from_input(Str(upper(text_parts[2]))) = ValueError
          \/ ~WellFormedMention(text_parts[1])

\* C15: a game command with an unrecognized gesture token or a malformed
\* player mention is answered to the requesting player only, and it creates
\* and modifies no match record.
C15_InvalidInputChangesNothing ==
    [][\A user_id \in Players, channel_id \in Channels, text_parts \in Texts :
          (InvalidInput(text_parts) /\ Command(user_id, channel_id, text_parts))
          => (/\ games' = games
              /\ resp'.kind = "invalid_gesture"
              /\ resp'.user = user_id)]_vars

\* The completed matches a player took part in, and those the player won,
\* lost and drew by the outcome of the gestures.
Played(p) == {r \in CompleteRows : r.player1_id = p \/ r.player2_id = p}
Won(p) ==
    {r \in Played(p) :
        \/ r.player1_id = p /\ ClaimedOutcome(r.player1_move, r.player2_move) = "first"
        \/ r.player2_id = p /\ ClaimedOutcome(r.player1_move, r.player2_move) = "second"}
Lost(p) ==
    {r \in Played(p) :
        \/ r.player1_id = p /\ ClaimedOutcome(r.player1_move, r.player2_move) = "second"
        \/ r.player2_id = p /\ ClaimedOutcome(r.player1_move, r.player2_move) = "first"}
Drawn(p) == {r \in Played(p) : ClaimedOutcome(r.player1_move, r.player2_move) = "draw"}

\* The places of a player in a list of rows.
PlacesOf(p, list) == {i \in 1..Len(list) : list[i].player_id = p}

\* C16: whatever the match history, get_leaderboard lists no player who took
\* part in fewer than 5 completed matches, and no player is listed by both
\* get_leaderboard and get_unranked_players.
C16_LeaderboardNeedsFiveMatches ==
    \A lb \in get_leaderboard, ur \in get_unranked_players :
        /\ \A i \in 1..Len(lb) : Cardinality(Played(lb[i].player_id)) >= MinRankedGames
        /\ \A p \in Players : PlacesOf(p, lb) = {} \/ PlacesOf(p, ur) = {}

\* C17: whatever the match history and the names recorded with its matches,
\* every player with a completed match is listed exactly once, by
\* get_leaderboard or by get_unranked_players; with exactly 4 completed
\* matches by get_unranked_players only, with games_needed = 1, and with 5 or
\* more by get_leaderboard only, once.
C17_EveryPlayerListedOnce ==
    \A lb \in get_leaderboard, ur \in get_unranked_players, p \in Players :
        LET n == Cardinality(Played(p)) IN
        /\ n >= 1 => Cardinality(PlacesOf(p, lb)) + Cardinality(PlacesOf(p, ur)) = 1
        /\ n = 4 => /\ PlacesOf(p, lb) = {}
                    /\ \A j \in PlacesOf(p, ur) : ur[j].games_needed = 1
        /\ n >= MinRankedGames => /\ PlacesOf(p, ur) = {}
                                  /\ Cardinality(PlacesOf(p, lb)) = 1

\* C18: the win rate get_leaderboard reports for a ranked player is
\* wins / (wins + losses + draws) as a percentage rounded to one decimal,
\* whatever the counts, zero wins or zero losses included.
C18_WinRateCountsEveryGame ==
    \A lb \in get_leaderboard :
        \A i \in 1..Len(lb) :
            lb[i].win_rate =
                RoundedPercent(lb[i].wins, lb[i].wins + lb[i].losses + lb[i].draws)

\* C19: the rows of get_leaderboard come by win rate descending, then by wins
\* descending, then by games played (wins + losses + draws) descending.
C19_OrderedByRateWinsGames ==
    \A lb \in get_leaderboard :
        \A i, j \in 1..Len(lb) :
            i < j =>
                ~ \/ lb[j].win_rate > lb[i].win_rate
                  \/ /\ lb[j].win_rate = lb[i].win_rate
                     /\ lb[j].wins > lb[i].wins
                  \/ /\ lb[j].win_rate = lb[i].win_rate
                     /\ lb[j].wins = lb[i].wins
                     /\ lb[j].wins + lb[j].losses + lb[j].draws
                            > lb[i].wins + lb[i].losses + lb[i].draws

\* C20: every completed match counts as one win for the player whose gesture
\* wins and one loss for the other, or as one draw for each; so the wins,
\* losses and draws get_user_stats and get_leaderboard report for a player
\* are those of the matches the player took part in, they add up to the
\* number of those matches, and all wins together equal all losses.
C20_TalliesMatchTheMatches ==
    /\ \A p \in Players :
          /\ user_stats(p).wins = Cardinality(Won(p))
          /\ user_stats(p).losses = Cardinality(Lost(p))
          /\ user_stats(p).draws = Cardinality(Drawn(p))
          /\ user_stats(p).wins + user_stats(p).losses + user_stats(p).draws
                = Cardinality(Played(p))
    /\ user_stats("P1").wins + user_stats("P2").wins + user_stats("P3").wins
          = user_stats("P1").losses + user_stats("P2").losses + user_stats("P3").losses
    /\ \A lb \in get_leaderboard :
          \A i \in 1..Len(lb) :
              /\ lb[i].wins = Cardinality(Won(lb[i].player_id))
              /\ lb[i].losses = Cardinality(Lost(lb[i].player_id))
              /\ lb[i].draws = Cardinality(Drawn(lb[i].player_id))

\* The sum of a count over the dicts of a stats list.
RECURSIVE SumField(_, _)
SumField(list, field) ==
    IF list = <<>> THEN 0 ELSE Head(list)[field] + SumField(Tail(list), field)

\* C21: for distinct players A and B and every match history,
\* get_head_to_head_stats(A, B) and get_head_to_head_stats(B, A) are both None
\* or report the same total of games and the same total of draws, and the
\* wins of the one are the losses of the other.
C21_HeadToHeadMirrors ==
    \A a \in Players : \A b \in Players \ {a} :
        /\ get_head_to_head_stats(a, b) = {} <=> get_head_to_head_stats(b, a) = {}
        /\ \A s \in get_head_to_head_stats(a, b), t \in get_head_to_head_stats(b, a) :
              /\ s.total_games = t.total_games
              /\ SumField(s.moves, "total_games") = SumField(t.moves, "total_games")
              /\ SumField(s.moves, "draws") = SumField(t.moves, "draws")
              /\ SumField(s.moves, "wins") = SumField(t.moves, "losses")
              /\ SumField(s.moves, "losses") = SumField(t.moves, "wins")

\* C21 witness: P1 and P2 have met with each of them playing first, and P1
\* has won more of their matches than P2.
C21_BothOrdersUnevenScore ==
    /\ \E r \in CompleteRows : r.player1_id = "P1" /\ r.player2_id = "P2"
    /\ \E r \in CompleteRows : r.player1_id = "P2" /\ r.player2_id = "P1"
    /\ \E s \in get_head_to_head_stats("P1", "P2") :
          SumField(s.moves, "wins") > SumField(s.moves, "losses")

\* The rates of a list of per-gesture dicts are sound: none is a division
\* fault, and a rate whose denominator is 0 is 0.
SoundRates(list, played) ==
    \A i \in 1..Len(list) :
        /\ list[i].win_rate # ZeroDivisionError
        /\ list[i].play_rate # ZeroDivisionError
        /\ list[i].wins + list[i].losses = 0 => list[i].win_rate = 0
        /\ played = 0 => list[i].play_rate = 0

\* The rates of the stats dict of a breakdown are sound.
SoundBreakdown(stats) ==
    \A m \in DOMAIN stats : \A d \in stats[m].first \cup stats[m].second :
        /\ d.win_rate # ZeroDivisionError
        /\ d.total_games = 0 => d.win_rate = 0

\* C22: in every match history, the empty one and those of draws only
\* included, no analytics operation meets a division fault, and every win
\* rate and play rate whose denominator is 0 is 0.
C22_NoRateDividesByZero ==
    /\ \A l \in get_leaderboard : \A i \in 1..Len(l) :
          /\ l[i].win_rate # ZeroDivisionError
          /\ l[i].wins + l[i].losses = 0 => l[i].win_rate = 0
    /\ \A l \in get_move_stats : SoundRates(l, SumField(l, "total_games"))
    /\ \A s \in get_move_stats_breakdown(NULL) : SoundBreakdown(s)
    /\ \A p \in Players :
          /\ \A s \in get_user_stats(p) :
                /\ s.win_rate # ZeroDivisionError
                /\ s.total_games = 0 => s.win_rate = 0
          /\ \A l \in get_player_stats(p) : SoundRates(l, SumField(l, "total_games"))
          /\ \A s \in get_move_stats_breakdown(p) : SoundBreakdown(s)
          /\ \A q \in Players :
                /\ \A s \in get_head_to_head_stats(p, q) :
                      SoundRates(s.moves, s.total_games)
                /\ \A s \in get_head_to_head_stats_breakdown(p, q) :
                      SoundBreakdown(s.moves)

\* C22 witness: a history of draws only, long enough for the leaderboard to
\* list a player, whose gesture has a win rate of 0 in get_player_stats.
C22_RankedOnDrawsAlone ==
    /\ CompleteRows # {}
    /\ \A r \in CompleteRows : draw_game(r.player1_move, r.player2_move)
    /\ \E l \in get_leaderboard : Len(l) > 0
    /\ \E l \in get_player_stats("P1") :
          Len(l) > 0 /\ l[1].wins + l[1].losses = 0 /\ l[1].win_rate = 0

\* The completed matches a opened against b.
OpenedAgainst(a, b) ==
    {r \in CompleteRows : r.player1_id = a /\ r.player2_id = b}

\* Of matches all of one player's gesture, with the predicate that tells the
\* matches that player won and the matches drawn: the wins and the decided
\* matches of the win rate, 0 of 1 when none was decided.
RateOf(won, drawn, all) ==
    [wins |-> IF all = drawn THEN 0 ELSE Cardinality(won),
     decided |-> IF all = drawn THEN 1 ELSE Cardinality(all \ drawn),
     played |-> Cardinality(all)]

\* The win rate of a with the gesture g as first mover against b.
OpenerRate(a, b, g) ==
    LET all == {r \in OpenedAgainst(a, b) : r.player1_move = g} IN
    RateOf({r \in all : first_player_wins(r.player1_move, r.player2_move)},
           {r \in all : draw_game(r.player1_move, r.player2_move)}, all)

\* The win rate of a with the gesture g as second mover against b.
CounterRate(a, b, g) ==
    LET all == {r \in OpenedAgainst(b, a) : r.player2_move = g} IN
    RateOf({r \in all : second_player_wins(r.player1_move, r.player2_move)},
           {r \in all : draw_game(r.player1_move, r.player2_move)}, all)

\* The rate x is beaten by the rate y: a higher win rate, or the same and
\* more matches.
Outranked(x, y) ==
    \/ y.wins * x.decided > x.wins * y.decided
    \/ y.wins * x.decided = x.wins * y.decided /\ y.played > x.played

\* C23: best_opener of get_head_to_head_stats_breakdown(A, B), when not None,
\* is a gesture A played as first mover against B that no other opening
\* gesture of A outranks by win rate, then by play count; best_counter
\* likewise among the gestures A played as second mover against B.
C23_BestOpenerIsOwnBestOpening ==
    \A a \in Players : \A b \in Players \ {a} :
        \A s \in get_head_to_head_stats_breakdown(a, b) :
            /\ s.best_opener # NULL =>
                  /\ OpenerRate(a, b, s.best_opener).played > 0
                  /\ \A g \in {r.player1_move : r \in OpenedAgainst(a, b)} :
                        ~Outranked(OpenerRate(a, b, s.best_opener), OpenerRate(a, b, g))
            /\ s.best_counter # NULL =>
                  /\ CounterRate(a, b, s.best_counter).played > 0
                  /\ \A g \in {r.player2_move : r \in OpenedAgainst(b, a)} :
                        ~Outranked(CounterRate(a, b, s.best_counter), CounterRate(a, b, g))

\* The opponents that beat p, that p beat, and that drew with p in a
\* completed match.
BeatenBy(p) ==
    {r.player2_id : r \in {q \in CompleteRows :
        q.player1_id = p /\ second_player_wins(q.player1_move, q.player2_move)}}
    \cup {r.player1_id : r \in {q \in CompleteRows :
        q.player2_id = p /\ first_player_wins(q.player1_move, q.player2_move)}}

HasBeaten(p) ==
    {r.player2_id : r \in {q \in CompleteRows :
        q.player1_id = p /\ first_player_wins(q.player1_move, q.player2_move)}}
    \cup {r.player1_id : r \in {q \in CompleteRows :
        q.player2_id = p /\ second_player_wins(q.player1_move, q.player2_move)}}

DrewWith(p) ==
    {r.player2_id : r \in {q \in CompleteRows :
        q.player1_id = p /\ draw_game(q.player1_move, q.player2_move)}}
    \cup {r.player1_id : r \in {q \in CompleteRows :
        q.player2_id = p /\ draw_game(q.player1_move, q.player2_move)}}

\* C24: get_user_stats returns None for nemesis when no opponent beat the
\* user, None for best_against when the user beat no opponent, and None for
\* most_draws when the user drew with no opponent.
C24_NoOpponentGivesNone ==
    \A p \in Players : \A s \in get_user_stats(p) :
        /\ BeatenBy(p) = {} => s.nemesis = {}
        /\ HasBeaten(p) = {} => s.best_against = {}
        /\ DrewWith(p) = {} => s.most_draws = {}

\* The part of C24 the code keeps: nemesis and best_against are None when no
\* opponent qualifies.
C24_NemesisAndBestAgainstNone ==
    \A p \in Players : \A s \in get_user_stats(p) :
        /\ BeatenBy(p) = {} => s.nemesis = {}
        /\ HasBeaten(p) = {} => s.best_against = {}

\* C25: Gesture.from_input returns, for every text typed from a key of its
\* mapping in any case and with whitespace around it, the one gesture of that
\* key; it returns each gesture for the gesture's own name and for its own
\* emoji; and it raises ValueError for every other text.
C25_FromInputIsTheAliasTable ==
    /\ \A g \in Gesture :
          /\ Gesture_from_input(emoji(g)) = g
          /\ \E k \in 1..Len(mapping) :
                Str(mapping[k].text) = g /\ Gesture_from_input(mapping[k].text) = g
    /\ resp.kind = "gesture" =>
          /\ resp.key # 0 => resp.gesture = mapping[resp.key].gesture
          /\ resp.key # 0 => resp.gesture \in Gesture
          /\ resp.key = 0 => resp.gesture = ValueError

\* C25 witness: a French alias typed in lower case after a space was read as
\* PAPER.
C25_PaddedLowerCaseAlias ==
    /\ resp.kind = "gesture"
    /\ resp.text = <<" ", "f", "e", "u", "i", "l", "l", "e", "s">>
    /\ resp.gesture = "PAPER"

\* C26: every request ends with a response to the user: no command text,
\* the empty one included, makes the game command handler end on an
\* exception instead of an answer.
C26_EveryCommandIsAnswered == resp.kind # "crash"

\* C27: when the response handler writes for a press of a button whose value
\* is the id of an open match M, made by another player than M's creator, it
\* completes M if M is pending, and changes no record other than M's; if M is
\* no longer pending it changes no record at all.
C27_ButtonCompletesItsOwnMatch ==
    [][\A h \in inflight \ inflight' :
          (/\ h.branch = "game"
           /\ target[h.button] = NULL
           /\ h.user_id # games[h.button].player1_id)
          => /\ \A g \in 1..Len(games) : g # h.button => games'[g] = games[g]
             /\ games[h.button].status = "pending" =>
                    games'[h.button].status = "complete"
             /\ games[h.button].status # "pending" => games' = games]_vars

\* The rate wins / (wins + losses) of a dict of counts, 0 when nothing was
\* decided.
DecidedRate(d) ==
    IF d.wins + d.losses = 0 THEN 0 ELSE RoundedPercent(d.wins, d.wins + d.losses)

\* C28: every per-gesture win rate of get_player_stats, get_move_stats,
\* get_move_stats_breakdown and get_head_to_head_stats is
\* wins / (wins + losses) of its own counts, so that the head-to-head rates of
\* a player who met a single opponent are the rates of get_player_stats.
C28_RatesCountDecidedMatchesOnly ==
    /\ \A l \in get_move_stats : \A i \in 1..Len(l) : l[i].win_rate = DecidedRate(l[i])
    /\ \A s \in get_move_stats_breakdown(NULL) : \A m \in DOMAIN s :
          \A d \in s[m].first \cup s[m].second : d.win_rate = DecidedRate(d)
    /\ \A p \in Players :
          /\ \A l \in get_player_stats(p) :
                \A i \in 1..Len(l) : l[i].win_rate = DecidedRate(l[i])
          /\ \A q \in Players \ {p} : \A s \in get_head_to_head_stats(p, q) :
                /\ \A i \in 1..Len(s.moves) : s.moves[i].win_rate = DecidedRate(s.moves[i])
                /\ (\A r \in CompleteRows : {r.player1_id, r.player2_id} = {p, q})
                      => \A l \in get_player_stats(p) : \A i \in 1..Len(l) :
                            \E j \in 1..Len(s.moves) :
                                /\ s.moves[j].move = l[i].move
                                /\ s.moves[j].win_rate = l[i].win_rate

\* The part of C28 the code keeps: the rates of get_player_stats and
\* get_move_stats are wins / (wins + losses).
C28_PlayerAndMoveStatsRates ==
    /\ \A l \in get_move_stats : \A i \in 1..Len(l) : l[i].win_rate = DecidedRate(l[i])
    /\ \A p \in Players : \A l \in get_player_stats(p) :
          \A i \in 1..Len(l) : l[i].win_rate = DecidedRate(l[i])

\* The outputs of the analytics operations.
Analytics ==
    [leaderboard |-> get_leaderboard,
     unranked |-> get_unranked_players,
     moves |-> get_move_stats,
     user |-> [p \in Players |-> get_user_stats(p)],
     player |-> [p \in Players |-> get_player_stats(p)],
     head_to_head |-> [p \in Players |->
                          [q \in Players |-> get_head_to_head_stats(p, q)]]]

\* The players of the completed matches.
Participants ==
    {r.player1_id : r \in CompleteRows} \cup {r.player2_id : r \in CompleteRows}

\* C29: a step that creates a pending match, open or a challenge, leaves the
\* output of every analytics operation unchanged, and after it the
\* leaderboard and the unranked players list no player, the target of a
\* challenge included, who took part in no completed match.
C29_PendingMatchesAreNotCounted ==
    [][(/\ Len(games') = Len(games) + 1
        /\ games'[Len(games')].status = "pending")
       => /\ Analytics' = Analytics
          /\ \A l \in get_leaderboard' :
                \A i \in 1..Len(l) : l[i].player_id \in Participants
          /\ \A l \in get_unranked_players' :
                \A i \in 1..Len(l) : l[i].player_id \in Participants]_vars

\* C29 witness: P1 has challenged P3, who has completed no match, while the
\* leaderboard lists a player and another one is unranked.
C29_ChallengedNewcomer ==
    /\ \E g \in 1..Len(games) :
          /\ games[g].status = "pending"
          /\ games[g].player1_id = "P1"
          /\ target[g] = "P3"
    /\ "P3" \notin Participants
    /\ \E l \in get_leaderboard : Len(l) > 0
    /\ \A l \in get_unranked_players : \A i \in 1..Len(l) : l[i].player_id # "P3"

\* C30: of a request that stores and announces a game, the acknowledgment
\* completes unless the acknowledgment itself fails, and the delivery
\* completes unless the delivery itself fails: neither failure prevents the
\* other.
C30_DeliveryAndAckAreIndependent ==
    "delivered" \in DOMAIN resp =>
        /\ ~resp.ack_raises => resp.acknowledged
        /\ ~resp.post_raises => resp.delivered

\* The part of C30 the code keeps: a failure of the acknowledgment never
\* prevents the delivery, and in the response handler a failure of the
\* delivery never prevents the acknowledgment.
C30_AckFailureKeepsDelivery ==
    "delivered" \in DOMAIN resp =>
        /\ ~resp.post_raises => resp.delivered
        /\ resp.kind \in {"game_result", "challenge_result"} =>
              (~resp.ack_raises => resp.acknowledged)
====
